---- MODULE Spec2Model ----
(***************************************************************************)
(* A model of src/src/pytesseract.py.                                      *)
(*                                                                         *)
(* The specifications of the module:                                       *)
(*   Spec      concurrent calls of run_and_get_output, each with its timer *)
(*             thread and its engine process, over one temp directory;     *)
(*   SpecCall  one caller that calls run_and_get_output again and again;   *)
(*   SpecOsd, SpecDict, SpecData, SpecArgs                                 *)
(*             osd_to_dict, file_to_dict, Data and the argument list of    *)
(*             run_tesseract, each applied to inputs drawn in Init;        *)
(*   SpecVer   threads calling get_tesseract_version and image_to_data.    *)
(*                                                                         *)
(* A string is a sequence of symbols (characters, or a word that is never  *)
(* split such as a label); None is the empty tuple and a present value v   *)
(* the one-element tuple <<v>>.                                            *)
(***************************************************************************)
EXTENDS Integers, Sequences, FiniteSets, TLC

VARIABLES call, files, lost, pin, pout, ver

vars == <<call, files, lost, pin, pout, ver>>

(***************************************************************************)
(* Bounds.                                                                 *)
(***************************************************************************)
NCalls == 2
NameLen == 1

(***************************************************************************)
(* Part 1: run_and_get_output, save, cleanup, run_tesseract,               *)
(* timeout_manager, kill.                                                  *)
(***************************************************************************)
Calls == 1..NCalls

None == <<>>

\* timeout_code of timeout_manager
timeout_code == -1

\* the status Popen reports for a process ended by process.kill() (SIGKILL)
KilledStatus == -9

\* the exit statuses an engine process ends with by itself
ExitStatuses == {0, 1}

\* the characters tempfile draws the random part of a name from
NameChars == {"a", "b"}

\* NamedTemporaryFile(prefix='tess_'): the names it may generate, all of one length
Bases == [1..NameLen -> NameChars]

\* f.name + extsep + extension: the input file save() writes
InSuffix == <<".", "PNG">>

\* output_filename_base + extsep + extension: the file the engine writes
OutSuffix == <<".", "txt">>

Suffixes == {<<>>, InSuffix, OutSuffix}

FileNames == {b \o s : b \in Bases, s \in Suffixes}

\* str.startswith, as the pattern temp_name + '*' of cleanup matches
BeginsWith(name, prefix) ==
    /\ Len(name) >= Len(prefix)
    /\ SubSeq(name, 1, Len(prefix)) = prefix

Existing == {n \in FileNames : files[n] # 0}

\* cleanup without the wildcard: only the temp file itself is listed
CleanupMatchesExact(temp_name) == {n \in Existing : n = temp_name}

\* iglob(temp_name + '*' if temp_name else temp_name): the existing names it lists
CleanupMatches(temp_name) ==
    IF temp_name = <<>> THEN {} ELSE {n \in Existing : BeginsWith(n, temp_name)}

IdleCall ==
    [pc |-> "idle", kind |-> "image", timeout |-> 0, base |-> <<>>, snap |-> {},
     proc |-> "none", status |-> None, rc |-> None, timer |-> "none",
     exc |-> "none", errst |-> None, killed |-> FALSE, selfExit |-> FALSE,
     outcome |-> "none"]

\* what the caller passes: an image, a path string, or something prepare() rejects
Kinds == {"image", "path", "bad"}

\* 0 is no timeout, 1 stands for any positive number of seconds
Timeouts == {0, 1}

\* run_and_get_output is entered
StartCall(c) ==
    /\ call[c].pc = "idle"
    /\ \E k \in Kinds, t \in Timeouts :
          call' = [call EXCEPT ![c] = [IdleCall EXCEPT !.pc = "mktemp", !.kind = k,
                                                      !.timeout = t]]
    /\ UNCHANGED <<files, lost, pin, pout, ver>>

\* save: NamedTemporaryFile(prefix='tess_', delete=False) creates a file under a
\* name that no existing file has (O_EXCL)
MkTemp(c) ==
    /\ call[c].pc = "mktemp"
    /\ \E b \in Bases :
          /\ files[b] = 0
          /\ files' = [files EXCEPT ![b] = c]
          /\ call' = [call EXCEPT ![c].pc = "save", ![c].base = b]
    /\ UNCHANGED <<lost, pin, pout, ver>>

\* save: a path is yielded as it is; an image is prepared and written to
\* f.name + extsep + extension; prepare() raises TypeError otherwise
SaveImage(c) ==
    /\ call[c].pc = "save"
    /\ CASE call[c].kind = "path" ->
              /\ call' = [call EXCEPT ![c].pc = "spawn"]
              /\ UNCHANGED files
         [] call[c].kind = "bad" ->
              /\ call' = [call EXCEPT ![c].pc = "glob", ![c].exc = "TypeError"]
              /\ UNCHANGED files
         [] OTHER ->
              /\ files' = [files EXCEPT ![call[c].base \o InSuffix] = c]
              /\ call' = [call EXCEPT ![c].pc = "spawn"]
    /\ UNCHANGED <<lost, pin, pout, ver>>

\* run_tesseract: subprocess.Popen, then timeout_manager starts the Timer when
\* seconds is not 0
Spawn(c) ==
    /\ call[c].pc = "spawn"
    /\ \/ call' = [call EXCEPT ![c].pc = "communicate", ![c].proc = "running",
                               ![c].timer = IF call[c].timeout = 0 THEN "none"
                                            ELSE "armed"]
       \/ call' = [call EXCEPT ![c].pc = "glob",
                               ![c].exc = "TesseractNotFoundError"]
    /\ UNCHANGED <<files, lost, pin, pout, ver>>

\* the engine writes <output-base>.<extension>
EngineWrite(c) ==
    /\ call[c].proc = "running"
    /\ files[call[c].base \o OutSuffix] # c
    /\ files' = [files EXCEPT ![call[c].base \o OutSuffix] = c]
    /\ UNCHANGED <<call, lost, pin, pout, ver>>

\* the engine process ends by itself
EngineExit(c) ==
    /\ call[c].proc = "running"
    /\ \E s \in ExitStatuses :
          call' = [call EXCEPT ![c].proc = "ended", ![c].status = <<s>>,
                               ![c].selfExit = (call[c].timer = "armed")]
    /\ UNCHANGED <<files, lost, pin, pout, ver>>

\* threading.Timer: the interval passes before cancel() and the timer thread
\* goes on to call kill(proc, timeout_code)
TimerFire(c) ==
    /\ call[c].timer = "armed"
    /\ call' = [call EXCEPT ![c].timer = "fired"]
    /\ UNCHANGED <<files, lost, pin, pout, ver>>

\* kill: process.kill()
TimerKill(c) ==
    /\ call[c].timer = "fired"
    /\ call' = IF call[c].proc = "running"
               THEN [call EXCEPT ![c].timer = "killed", ![c].proc = "ended",
                                 ![c].status = <<KilledStatus>>,
                                 ![c].killed = TRUE]
               ELSE [call EXCEPT ![c].timer = "killed"]
    /\ UNCHANGED <<files, lost, pin, pout, ver>>

\* kill: process.returncode = code
TimerSetCode(c) ==
    /\ call[c].timer = "killed"
    /\ call' = [call EXCEPT ![c].timer = "finished", ![c].rc = <<timeout_code>>]
    /\ UNCHANGED <<files, lost, pin, pout, ver>>

\* timeout_manager: proc.communicate() returns once the process has ended; its
\* wait() stores the exit status unless returncode is already set
Communicate(c) ==
    /\ call[c].pc = "communicate"
    /\ call[c].proc = "ended"
    /\ call' = [call EXCEPT ![c].pc = "body",
                            ![c].rc = IF call[c].rc = None THEN call[c].status
                                      ELSE call[c].rc]
    /\ UNCHANGED <<files, lost, pin, pout, ver>>

\* run_tesseract: if proc.returncode: raise TesseractError(proc.returncode, ...)
Body(c) ==
    /\ call[c].pc = "body"
    /\ LET next == IF call[c].timeout = 0 THEN "close" ELSE "cancel"
       IN  call' = IF call[c].rc # <<0>>
                   THEN [call EXCEPT ![c].pc = next, ![c].exc = "TesseractError",
                                     ![c].errst = call[c].rc]
                   ELSE [call EXCEPT ![c].pc = next]
    /\ UNCHANGED <<files, lost, pin, pout, ver>>

\* timeout_manager, finally: timer.cancel()
TimerCancel(c) ==
    /\ call[c].pc = "cancel"
    /\ call' = [call EXCEPT ![c].pc = "check",
                            ![c].timer = IF call[c].timer = "armed" THEN "cancelled"
                                         ELSE call[c].timer]
    /\ UNCHANGED <<files, lost, pin, pout, ver>>

\* timeout_manager, finally: if proc.returncode == timeout_code: raise RuntimeError
FinallyCheck(c) ==
    /\ call[c].pc = "check"
    /\ call' = IF call[c].rc = <<timeout_code>>
               THEN [call EXCEPT ![c].pc = "close", ![c].exc = "timeout",
                                 ![c].errst = None]
               ELSE [call EXCEPT ![c].pc = "close"]
    /\ UNCHANGED <<files, lost, pin, pout, ver>>

\* timeout_manager, outer finally: the three pipes are closed; an exception
\* leaves run_and_get_output, else the output file is opened next
Close(c) ==
    /\ call[c].pc = "close"
    /\ call' = [call EXCEPT ![c].pc = IF call[c].exc = "none" THEN "open" ELSE "glob"]
    /\ UNCHANGED <<files, lost, pin, pout, ver>>

\* run_and_get_output: open(filename, 'rb') and read
OpenOutput(c) ==
    /\ call[c].pc = "open"
    /\ call' = IF files[call[c].base \o OutSuffix] # 0
               THEN [call EXCEPT ![c].pc = "glob"]
               ELSE [call EXCEPT ![c].pc = "glob", ![c].exc = "IOError"]
    /\ UNCHANGED <<files, lost, pin, pout, ver>>

\* save, finally: cleanup(f.name) lists the directory
CleanupGlob(c) ==
    /\ call[c].pc = "glob"
    /\ call' = [call EXCEPT ![c].pc = "remove", ![c].snap = CleanupMatches(call[c].base)]
    /\ UNCHANGED <<files, lost, pin, pout, ver>>

InProgress(d) == call[d].pc \notin {"idle", "done"}

\* cleanup: remove(filename) for the listed names, in the order the directory
\* gave them; ENOENT is passed over
CleanupRemove(c) ==
    /\ call[c].pc = "remove"
    /\ \E n \in call[c].snap :
          /\ files' = [files EXCEPT ![n] = 0]
          /\ call' = [call EXCEPT ![c].snap = call[c].snap \ {n}]
          /\ lost' = IF files[n] \notin {0, c} /\ InProgress(files[n])
                     THEN lost \cup {files[n]} ELSE lost
    /\ UNCHANGED <<pin, pout, ver>>

\* cleanup has removed every listed name: the call ends, with its result or
\* with the pending exception
CleanupDone(c) ==
    /\ call[c].pc = "remove"
    /\ call[c].snap = {}
    /\ call' = [call EXCEPT ![c].pc = "done",
                            ![c].outcome = IF call[c].exc = "none" THEN "ok"
                                           ELSE call[c].exc]
    /\ UNCHANGED <<files, lost, pin, pout, ver>>

\* the caller calls run_and_get_output once more after a call has ended
CallAgain(c) ==
    /\ call[c].pc = "done"
    /\ call' = [call EXCEPT ![c] = IdleCall]
    /\ UNCHANGED <<files, lost, pin, pout, ver>>

CallStep(c) ==
    \/ StartCall(c)
    \/ MkTemp(c)
    \/ SaveImage(c)
    \/ Spawn(c)
    \/ EngineWrite(c)
    \/ EngineExit(c)
    \/ TimerFire(c)
    \/ TimerKill(c)
    \/ TimerSetCode(c)
    \/ Communicate(c)
    \/ Body(c)
    \/ TimerCancel(c)
    \/ FinallyCheck(c)
    \/ Close(c)
    \/ OpenOutput(c)
    \/ CleanupGlob(c)
    \/ CleanupRemove(c)
    \/ CleanupDone(c)

Init ==
    /\ call = [c \in Calls |-> IdleCall]
    /\ files = [n \in FileNames |-> 0]
    /\ lost = {}
    /\ pin = <<>>
    /\ pout = <<>>
    /\ ver = <<>>

Next == \E c \in Calls : CallStep(c)

Spec == Init /\ [][Next]_vars

NextCall == CallStep(1) \/ CallAgain(1)

SpecCall == Init /\ [][NextCall]_vars

(***************************************************************************)
(* Claims about run_and_get_output and run_tesseract.                      *)
(***************************************************************************)
Ended(c) == call[c].pc = "done"

\* C1: once a call of run_and_get_output on an in-memory image has ended, on
\* whichever exit path, no file whose name begins with the call's base name
\* exists.
C1_NoScratchLeft ==
    \A c \in Calls :
        (Ended(c) /\ call[c].kind = "image" /\ call[c].base # <<>>)
            => \A n \in FileNames : BeginsWith(n, call[c].base) => files[n] = 0

\* a call on an image whose engine was killed on timeout, after it wrote output
C1_Witness ==
    /\ Ended(1)
    /\ call[1].kind = "image"
    /\ call[1].outcome = "timeout"
    /\ call[1].killed

\* C2: when the countdown elapses while the engine is running and the timer
\* thread kills it, the call fails with the timed-out error, never with
\* TesseractError and never with success.
C2_TimeoutReported ==
    \A c \in Calls : (Ended(c) /\ call[c].killed) => call[c].outcome = "timeout"

\* C9: when the engine ends by itself before the countdown elapses, the call
\* is not reported as timed out and its outcome follows the engine's own exit
\* status.
C9_NoSpuriousKill ==
    \A c \in Calls :
        (Ended(c) /\ call[c].selfExit) =>
            /\ call[c].outcome # "timeout"
            /\ call[c].status = <<0>> => call[c].outcome \in {"ok", "IOError"}
            /\ call[c].status # <<0>> =>
                  (call[c].outcome = "TesseractError" /\ call[c].errst = call[c].status)

\* C3: no release removes a file of another call in progress, and once every
\* call has ended no scratch file remains.
C3_NoCollision ==
    /\ lost = {}
    /\ (\A c \in Calls : Ended(c)) => Existing = {}

(***************************************************************************)
(* Part 2: the pure functions.  pin is the drawn input, pout is None until *)
(* the function has been applied and then holds <<result>>.                *)
(***************************************************************************)
MaxOsdLen == 5

CallsIdle ==
    /\ call = [c \in Calls |-> IdleCall]
    /\ files = [n \in FileNames |-> 0]
    /\ lost = {}

\* the strings over an alphabet, up to a length
StringsUpTo(alphabet, n) == UNION {[1..k -> alphabet] : k \in 0..n}

NL == "\n"
TAB == "\t"

\* the separator ': ' of an OSD line, one symbol
SEP == ": "

Digits == <<"0", "1", "2", "3", "4", "5", "6", "7", "8", "9">>

DigitSet == {Digits[i] : i \in 1..10}

DigitVal(ch) == (CHOOSE i \in 1..10 : Digits[i] = ch) - 1

\* str.split(sep), sep one symbol
RECURSIVE Split(_, _)
Split(s, sep) ==
    IF \A i \in 1..Len(s) : s[i] # sep
    THEN <<s>>
    ELSE LET i == CHOOSE k \in 1..Len(s) :
                     s[k] = sep /\ \A j \in 1..(k - 1) : s[j] # sep
         IN  <<SubSeq(s, 1, i - 1)>> \o Split(SubSeq(s, i + 1, Len(s)), sep)

\* sep.join(parts)
RECURSIVE Join(_, _)
Join(parts, sep) ==
    IF parts = <<>> THEN <<>>
    ELSE IF Len(parts) = 1 THEN parts[1]
    ELSE parts[1] \o <<sep>> \o Join(Tail(parts), sep)

\* str.isdigit() on the model's characters
IsDigitStr(s) == Len(s) > 0 /\ \A i \in 1..Len(s) : s[i] \in DigitSet

\* int(s) of a string of digits
RECURSIVE DigitsVal(_)
DigitsVal(s) ==
    IF s = <<>> THEN 0 ELSE 10 * DigitsVal(SubSeq(s, 1, Len(s) - 1)) + DigitVal(s[Len(s)])

\* str(n)
RECURSIVE NatToStr(_)
NatToStr(n) == IF n < 10 THEN <<Digits[n + 1]>> ELSE NatToStr(n \div 10) \o <<Digits[(n % 10) + 1]>>

IntToStr(n) == IF n < 0 THEN <<"-">> \o NatToStr(-n) ELSE NatToStr(n)

RECURSIVE Pow10(_)
Pow10(k) == IF k = 0 THEN 1 ELSE 10 * Pow10(k - 1)

\* float(val) succeeds: digits with at most one point and at least one digit
IsFloatStr(s) ==
    LET points == {i \in 1..Len(s) : s[i] = "."}
    IN  /\ \A i \in 1..Len(s) : s[i] \in DigitSet \cup {"."}
        /\ Cardinality(points) <= 1
        /\ \E i \in 1..Len(s) : s[i] \in DigitSet

\* float(val), as the number times 10^MaxOsdLen
FloatVal(s) ==
    LET parts == Split(s, ".")
        frac == IF Len(parts) = 2 THEN parts[2] ELSE <<>>
    IN  DigitsVal(parts[1]) * Pow10(MaxOsdLen) + DigitsVal(frac) * Pow10(MaxOsdLen - Len(frac))

OSD_KEYS ==
    (<<"Page number">> :> [field |-> "page_num", type |-> "int"]) @@
    (<<"Orientation in degrees">> :> [field |-> "orientation", type |-> "int"]) @@
    (<<"Rotate">> :> [field |-> "rotate", type |-> "int"]) @@
    (<<"Orientation confidence">> :> [field |-> "orientation_conf", type |-> "float"]) @@
    (<<"Script">> :> [field |-> "script", type |-> "str"]) @@
    (<<"Script confidence">> :> [field |-> "script_conf", type |-> "float"])

is_valid(val, type) ==
    CASE type = "int" -> IsDigitStr(val)
      [] type = "float" -> IsFloatStr(val)
      [] OTHER -> TRUE

\* OSD_KEYS[label][1](val): the value converted to the declared type
OsdValue(val, type) ==
    CASE type = "int" -> [t |-> "int", v |-> DigitsVal(val)]
      [] type = "float" -> [t |-> "float", v |-> FloatVal(val)]
      [] OTHER -> [t |-> "str", v |-> val]

EmptyDict == [k \in {} |-> 0]

\* the dict comprehension of osd_to_dict over the lines left, acc the entries
\* made so far; a label that is no key of OSD_KEYS raises KeyError
RECURSIVE OsdFold(_, _)
OsdFold(lines, acc) ==
    IF lines = <<>> THEN [err |-> "none", d |-> acc]
    ELSE LET kv == Split(Head(lines), SEP)
         IN  IF Len(kv) # 2 THEN OsdFold(Tail(lines), acc)
             ELSE IF kv[1] \notin DOMAIN OSD_KEYS THEN [err |-> "KeyError", d |-> EmptyDict]
             ELSE LET e == OSD_KEYS[kv[1]]
                  IN  IF is_valid(kv[2], e.type)
                      THEN OsdFold(Tail(lines), (e.field :> OsdValue(kv[2], e.type)) @@ acc)
                      ELSE OsdFold(Tail(lines), acc)

osd_to_dict(osd) == OsdFold(Split(osd, NL), EmptyDict)

\* the symbols an OSD text is drawn from: three of the labels, a digit, a
\* point, a letter and the two separators
OsdAlphabet ==
    {"Orientation in degrees", "Orientation confidence", "Script", "9", ".", "x", SEP, NL}

InitOsd ==
    /\ CallsIdle
    /\ ver = <<>>
    /\ pout = None
    /\ \E osd \in StringsUpTo(OsdAlphabet, MaxOsdLen) : pin = [fn |-> "osd_to_dict", osd |-> osd]

ApplyOsdToDict ==
    /\ pin.fn = "osd_to_dict"
    /\ pout = None
    /\ pout' = <<osd_to_dict(pin.osd)>>
    /\ UNCHANGED <<call, files, lost, pin, ver>>

SpecOsd == InitOsd /\ [][ApplyOsdToDict]_vars

\* the lines of an OSD text that the claim keeps: a recognized label, one
\* separator, and a value that parses as the label's type
OsdKept(osd) ==
    LET lines == Split(osd, NL)
    IN  {i \in 1..Len(lines) :
            LET kv == Split(lines[i], SEP)
            IN  /\ Len(kv) = 2
                /\ kv[1] \in DOMAIN OSD_KEYS
                /\ is_valid(kv[2], OSD_KEYS[kv[1]].type)}

\* C4: osd_to_dict never raises, and its result holds exactly the fields of
\* the lines with a recognized label and a value of the declared type, each
\* with a value of that type.
C4_OsdNeverRaises ==
    (pout # None) =>
        LET lines == Split(pin.osd, NL)
            kept == OsdKept(pin.osd)
            r == pout[1]
        IN  /\ r.err = "none"
            /\ DOMAIN r.d = {OSD_KEYS[Split(lines[i], SEP)[1]].field : i \in kept}
            /\ \A i \in kept :
                  LET e == OSD_KEYS[Split(lines[i], SEP)[1]]
                  IN  r.d[e.field].t = e.type

(***************************************************************************)
(* file_to_dict                                                            *)
(***************************************************************************)
MaxCols == 2
MaxRows == 2
MaxCellLen == 2

\* a cell of a table: an int or a str
IntCell(n) == [t |-> "int", v |-> n]
StrCell(s) == [t |-> "str", v |-> s]

\* val = row[i]; if row[i].isdigit() and i != str_col_idx: val = int(row[i])
\* (i and str_col_idx count from 0)
CoerceCell(cell, i, str_col_idx) ==
    IF IsDigitStr(cell) /\ i # str_col_idx THEN IntCell(DigitsVal(cell)) ELSE StrCell(cell)

\* the rows that have a cell in column i (from 0), in order: their values
RECURSIVE Column(_, _, _)
Column(rows, i, str_col_idx) ==
    IF rows = <<>> THEN <<>>
    ELSE IF Len(Head(rows)) <= i THEN Column(Tail(rows), i, str_col_idx)
    ELSE <<CoerceCell(Head(rows)[i + 1], i, str_col_idx)>> \o Column(Tail(rows), i, str_col_idx)

\* file_to_dict(tsv, cell_delimiter, str_col_idx); rows[-1] of an empty list
\* raises IndexError
file_to_dict(tsv, cell_delimiter, str_col_idx) ==
    LET lines == Split(tsv, NL)
        all == [k \in 1..Len(lines) |-> Split(lines[k], cell_delimiter)]
        header == all[1]
        rows0 == Tail(all)
        length == Len(header)
    IN  IF rows0 = <<>> THEN [err |-> "IndexError", d |-> EmptyDict]
        ELSE LET n == Len(rows0)
                 rows == IF Len(rows0[n]) < length
                         THEN [rows0 EXCEPT ![n] = Append(rows0[n], <<>>)]
                         ELSE rows0
                 idx == IF str_col_idx < 0 THEN str_col_idx + length ELSE str_col_idx
                 \* a later column of the same name replaces an earlier one
                 last(h) == CHOOSE i \in 1..length :
                                header[i] = h /\ \A j \in (i + 1)..length : header[j] # h
             IN  [err |-> "none",
                  d |-> [h \in {header[i] : i \in 1..length} |->
                            Column(rows, last(h) - 1, idx)]]

\* the characters of a table cell and of a column name
CellChars == {"0", "x"}
NameCells == {<<"h">>, <<"k">>}

Cells == StringsUpTo(CellChars, MaxCellLen)

\* a row without its final cell
DropLast(row) == SubSeq(row, 1, Len(row) - 1)

\* the tables a text is serialized from: a header, and rows with as many cells
\* as the header, of which the last may lack its final cell
Tables ==
    UNION {
        {[header |-> h,
          rows |-> IF short /\ r # <<>>
                   THEN [r EXCEPT ![Len(r)] = DropLast(r[Len(r)])] ELSE r] :
            h \in [1..nc -> NameCells],
            r \in UNION {[1..nr -> [1..nc -> Cells]] : nr \in 0..MaxRows},
            short \in BOOLEAN}
        : nc \in 1..MaxCols}

\* header and rows joined by the delimiter, lines joined by '\n'
Serialize(header, rows, delim) ==
    Join(<<Join(header, delim)>> \o [i \in 1..Len(rows) |-> Join(rows[i], delim)], NL)

\* image_to_data passes -1 and image_to_boxes 0 as str_col_idx
StrColIdxs == {-1, 0}

InitDict ==
    /\ CallsIdle
    /\ ver = <<>>
    /\ pout = None
    /\ \E t \in Tables, x \in StrColIdxs :
          pin = [fn |-> "file_to_dict", header |-> t.header, rows |-> t.rows,
                 tsv |-> Serialize(t.header, t.rows, TAB), str_col_idx |-> x]

ApplyFileToDict ==
    /\ pin.fn = "file_to_dict"
    /\ pout = None
    /\ pout' = <<file_to_dict(pin.tsv, TAB, pin.str_col_idx)>>
    /\ UNCHANGED <<call, files, lost, pin, ver>>

SpecDict == InitDict /\ [][ApplyFileToDict]_vars

\* str(val) of a decoded cell
CellToStr(c) == IF c.t = "int" THEN IntToStr(c.v) ELSE c.v

\* C5: decoding the serialized table and turning the column values back into
\* strings gives back the cells of every row, a last row that lacks its final
\* cell coming back with one added empty cell.
C5_TableLeftInverse ==
    (pout # None) =>
        LET r == pout[1]
            nc == Len(pin.header)
            padded(row) == IF Len(row) < nc THEN Append(row, <<>>) ELSE row
        IN  /\ r.err = "none"
            /\ \A i \in 1..nc :
                  /\ pin.header[i] \in DOMAIN r.d
                  /\ Len(r.d[pin.header[i]]) = Len(pin.rows)
                  /\ \A k \in 1..Len(pin.rows) :
                        CellToStr(r.d[pin.header[i]][k]) = padded(pin.rows[k])[i]

(***************************************************************************)
(* DataLine and Data                                                       *)
(***************************************************************************)
MaxDataLen == 5

\* DataLine.default_int
default_int == -2

\* DataLine.default_str
default_str == <<TAB>>

\* the attributes DataLine.__init__ sets before it reads the line
NumericAttrs ==
    {<<"level">>, <<"page_num">>, <<"block_num">>, <<"par_num">>, <<"line_num">>,
     <<"word_num">>, <<"left">>, <<"top">>, <<"width">>, <<"height">>, <<"conf">>}

DefaultAttrs ==
    [a \in NumericAttrs \cup {<<"text">>, <<"default_int">>, <<"default_str">>} |->
        IF a \in NumericAttrs \cup {<<"default_int">>} THEN IntCell(default_int)
        ELSE StrCell(default_str)]

\* int(s) succeeds: an optional sign and digits
IsIntStr(s) ==
    \/ IsDigitStr(s)
    \/ Len(s) > 1 /\ s[1] = "-" /\ IsDigitStr(Tail(s))

IntVal(s) == IF s[1] = "-" THEN 0 - DigitsVal(Tail(s)) ELSE DigitsVal(s)

\* try: int(data_list[i]) except ValueError: data_list[i]
ParseField(s) == IF IsIntStr(s) THEN IntCell(IntVal(s)) ELSE StrCell(s)

\* DataLine.__fill_from_string from header column i on; data_list[i] past the
\* end of the line's fields raises IndexError
RECURSIVE FillFromString(_, _, _, _)
FillFromString(data_list, headers, i, attrs) ==
    IF i > Len(headers) THEN [err |-> "none", attrs |-> attrs]
    ELSE IF i > Len(data_list) THEN [err |-> "IndexError", attrs |-> attrs]
    ELSE FillFromString(data_list, headers, i + 1,
                        (headers[i] :> ParseField(data_list[i])) @@ attrs)

DataLine(data_string, headers) ==
    FillFromString(Split(data_string, TAB), headers, 1, DefaultAttrs)

\* Data.__init__: one DataLine per line after the first
RECURSIVE DataLines(_, _)
DataLines(lines, headers) ==
    IF lines = <<>> THEN [err |-> "none", lines |-> <<>>]
    ELSE LET first == DataLine(Head(lines), headers)
             rest == DataLines(Tail(lines), headers)
         IN  IF first.err # "none" THEN [err |-> first.err, lines |-> <<>>]
             ELSE IF rest.err # "none" THEN rest
             ELSE [err |-> "none", lines |-> <<first.attrs>> \o rest.lines]

Data(data_str) ==
    LET data_list == Split(data_str, NL)
    IN  DataLines(Tail(data_list), Split(data_list[1], TAB))

\* the symbols a table text is drawn from: two column names, a digit, a sign
\* and the two separators
DataAlphabet == {"level", "text", "7", "-", TAB, NL}

InitData ==
    /\ CallsIdle
    /\ ver = <<>>
    /\ pout = None
    /\ \E text \in StringsUpTo(DataAlphabet, MaxDataLen) : pin = [fn |-> "Data", text |-> text]

ApplyData ==
    /\ pin.fn = "Data"
    /\ pout = None
    /\ pout' = <<Data(pin.text)>>
    /\ UNCHANGED <<call, files, lost, pin, ver>>

SpecData == InitData /\ [][ApplyData]_vars

\* C8: Data(text) holds one DataLine per line after the header line, in order;
\* the attribute named by header column i holds the line's i-th field (an int
\* when it parses as one) and the fixed attributes the header does not name
\* keep their default.
C8_DataLines ==
    (pout # None) =>
        LET r == pout[1]
            lines == Split(pin.text, NL)
            headers == Split(lines[1], TAB)
        IN  /\ r.err = "none"
            /\ Len(r.lines) = Len(lines) - 1
            /\ \A k \in 1..(Len(lines) - 1) :
                  LET fields == Split(lines[k + 1], TAB)
                  IN  /\ \A i \in 1..Len(headers) :
                            /\ i <= Len(fields)
                            /\ r.lines[k][headers[i]] = ParseField(fields[i])
                      /\ \A a \in NumericAttrs :
                            (\A i \in 1..Len(headers) : headers[i] # a) =>
                                r.lines[k][a] = IntCell(default_int)
                      /\ (\A i \in 1..Len(headers) : headers[i] # <<"text">>) =>
                            r.lines[k][<<"text">>] = StrCell(default_str)

(***************************************************************************)
(* run_tesseract: the argument list                                        *)
(***************************************************************************)
MaxConfigLen == 3

\* tesseract_cmd, and the two paths run_and_get_output passes
tesseract_cmd == <<"tesseract">>
InputPath == <<"in.png">>
OutputBase == <<"out">>

\* shlex.split(config) read character by character: tok is None between words,
\* inq says a single quote is open; an unclosed quote raises ValueError
RECURSIVE ShlexScan(_, _, _, _)
ShlexScan(s, tok, inq, words) ==
    IF s = <<>>
    THEN IF inq THEN [err |-> "ValueError", words |-> <<>>]
         ELSE [err |-> "none", words |-> IF tok = None THEN words ELSE Append(words, tok[1])]
    ELSE LET ch == Head(s)
             cur == IF tok = None THEN <<>> ELSE tok[1]
         IN  IF inq
             THEN IF ch = "'" THEN ShlexScan(Tail(s), tok, FALSE, words)
                  ELSE ShlexScan(Tail(s), <<Append(cur, ch)>>, TRUE, words)
             ELSE IF ch = " "
                  THEN ShlexScan(Tail(s), None, FALSE,
                                 IF tok = None THEN words ELSE Append(words, tok[1]))
                  ELSE IF ch = "'" THEN ShlexScan(Tail(s), <<cur>>, TRUE, words)
                  ELSE ShlexScan(Tail(s), <<Append(cur, ch)>>, FALSE, words)

ShlexSplit(s) == ShlexScan(s, None, FALSE, <<>>)

\* the prefix without the test of the platform
NicePrefixAnyPlatform(platform, nice) ==
    IF nice # 0 THEN <<<<"nice">>, <<"-n">>, IntToStr(nice)>> ELSE <<>>

\* if not sys.platform.startswith('win32') and nice != 0:
\*     cmd_args += ('nice', '-n', str(nice))
NicePrefix(platform, nice) ==
    IF platform # "win32" /\ nice # 0 THEN <<<<"nice">>, <<"-n">>, IntToStr(nice)>> ELSE <<>>

\* if extension and extension not in {'box', 'osd', 'tsv'}: cmd_args.append(extension)
OutputSelector(extension) ==
    IF extension # <<>> /\ extension \notin {<<"box">>, <<"osd">>, <<"tsv">>}
    THEN <<extension>> ELSE <<>>

\* run_tesseract up to subprocess.Popen: the list handed to it, or the
\* ValueError of shlex.split
CmdArgs(platform, input_filename, output_filename_base, extension, lang, config, nice) ==
    LET words == IF config # <<>> THEN ShlexSplit(config) ELSE [err |-> "none", words |-> <<>>]
    IN  IF words.err # "none" THEN [err |-> words.err, args |-> <<>>]
        ELSE [err |-> "none",
              args |-> NicePrefix(platform, nice)
                       \o <<tesseract_cmd, input_filename, output_filename_base>>
                       \o (IF lang # None THEN <<<<"-l">>, lang[1]>> ELSE <<>>)
                       \o words.words
                       \o OutputSelector(extension)]

Platforms == {"linux", "win32"}
Nices == {-5, 0, 10}
Langs == {None, <<<<"eng">>>>}
Extensions == {<<>>, <<"txt">>, <<"pdf">>, <<"hocr">>, <<"box">>, <<"osd">>, <<"tsv">>}
ConfigChars == {"a", " ", "'"}

InitArgs ==
    /\ CallsIdle
    /\ ver = <<>>
    /\ pout = None
    /\ \E pf \in Platforms, n \in Nices, l \in Langs, e \in Extensions,
          cfg \in StringsUpTo(ConfigChars, MaxConfigLen) :
          pin = [fn |-> "run_tesseract", platform |-> pf, nice |-> n, lang |-> l,
                 extension |-> e, config |-> cfg]

ApplyRunTesseract ==
    /\ pin.fn = "run_tesseract"
    /\ pout = None
    /\ pout' = <<CmdArgs(pin.platform, InputPath, OutputBase, pin.extension, pin.lang,
                         pin.config, pin.nice)>>
    /\ UNCHANGED <<call, files, lost, pin, ver>>

SpecArgs == InitArgs /\ [][ApplyRunTesseract]_vars

\* the argument list laid out by position, the selector left out for the
\* extensions in omitted
ArgsLaidOut(args, omitted) ==
    LET p == IF pin.nice # 0 /\ pin.platform # "win32" THEN 3 ELSE 0
        l == IF pin.lang # None THEN 2 ELSE 0
        words == ShlexSplit(pin.config).words
        w == Len(words)
        e == IF pin.extension \in omitted THEN 0 ELSE 1
    IN  /\ Len(args) = p + 3 + l + w + e
        /\ p = 3 => SubSeq(args, 1, 3) = <<<<"nice">>, <<"-n">>, IntToStr(pin.nice)>>
        /\ SubSeq(args, p + 1, p + 3) = <<tesseract_cmd, InputPath, OutputBase>>
        /\ l = 2 => SubSeq(args, p + 4, p + 5) = <<<<"-l">>, pin.lang[1]>>
        /\ SubSeq(args, p + 3 + l + 1, p + 3 + l + w) = words
        /\ e = 1 => args[Len(args)] = pin.extension

Spawned == pout # None /\ pout[1].err = "none"

\* C7 as stated: the spawned list is the nice prefix (nice non-zero, not
\* win32), tool, input, output base, -l lang (when given), the config's shell
\* words, and last the extension, omitted exactly for box, osd and tsv.
C7_ArgsAsStated ==
    Spawned => ArgsLaidOut(pout[1].args, {<<"box">>, <<"osd">>, <<"tsv">>})

\* C7 amended: as stated, the extension being omitted exactly when it is
\* empty or one of box, osd and tsv.
C7_ArgsAmended ==
    Spawned => ArgsLaidOut(pout[1].args, {<<>>, <<"box">>, <<"osd">>, <<"tsv">>})

\* a spawned list with every optional part present
C7_Witness ==
    /\ Spawned
    /\ pin.nice # 0
    /\ pin.platform = "linux"
    /\ pin.lang # None
    /\ pin.extension = <<"pdf">>
    /\ Len(ShlexSplit(pin.config).words) = 2
    /\ Len(pout[1].args) = 11

(***************************************************************************)
(* Part 3: run_once, get_tesseract_version, image_to_data.                 *)
(* ver.cache is wrapper._result (None while it is the wrapper itself),     *)
(* ver.engine the version token the installed engine prints, ver.first the *)
(* value of the first query that succeeded, ver.thr the callers.           *)
(***************************************************************************)
NThreads == 2

Threads == 1..NThreads

Letters == {"v", "d"}

\* the run of characters of one kind (digits, or letters) that s starts with
RECURSIVE RunLen(_, _)
RunLen(s, kind) ==
    IF s = <<>> \/ Head(s) \notin kind THEN 0 ELSE 1 + RunLen(Tail(s), kind)

\* LooseVersion.parse: the components of the string, runs of digits as ints,
\* runs of letters as text, the points dropped
RECURSIVE ParseLoose(_)
ParseLoose(s) ==
    IF s = <<>> THEN <<>>
    ELSE IF Head(s) \in DigitSet
         THEN LET n == RunLen(s, DigitSet)
              IN  <<IntCell(DigitsVal(SubSeq(s, 1, n)))>> \o ParseLoose(SubSeq(s, n + 1, Len(s)))
    ELSE IF Head(s) \in Letters
         THEN LET n == RunLen(s, Letters)
              IN  <<StrCell(SubSeq(s, 1, n))>> \o ParseLoose(SubSeq(s, n + 1, Len(s)))
    ELSE ParseLoose(Tail(s))

\* .lstrip(string.printable[10:]): leading characters that are no digits go
RECURSIVE LStripNonDigits(_)
LStripNonDigits(s) ==
    IF s = <<>> \/ Head(s) \in DigitSet THEN s ELSE LStripNonDigits(Tail(s))

\* get_tesseract_version's value for the token after the tool's name
VersionOf(token) == ParseLoose(LStripNonDigits(token))

\* LooseVersion._cmp: the component lists compared as Python compares lists;
\* an int against text raises TypeError
RECURSIVE LooseCmp(_, _)
LooseCmp(a, b) ==
    IF a = <<>> /\ b = <<>> THEN "eq"
    ELSE IF a = <<>> THEN "lt"
    ELSE IF b = <<>> THEN "gt"
    ELSE IF Head(a) = Head(b) THEN LooseCmp(Tail(a), Tail(b))
    ELSE IF Head(a).t # Head(b).t THEN "TypeError"
    ELSE IF Head(a).t = "int" THEN (IF Head(a).v < Head(b).v THEN "lt" ELSE "gt")
    ELSE "text"

\* the '3.05' of image_to_data
MinTsvVersion == <<"3", ".", "0", "5">>

\* the comparison on the first component alone
BelowMajorOnly(v) == LooseCmp(SubSeq(v, 1, 1), SubSeq(ParseLoose(MinTsvVersion), 1, 1))

\* get_tesseract_version() < '3.05'
BelowMinTsv(v) == LooseCmp(v, ParseLoose(MinTsvVersion))

\* a wrapper that returns without keeping func's value
StoreNothing(cache, val) == cache

\* wrapper._result = func(*args, **kwargs)
StoreResult(cache, val) == <<val>>

\* the version tokens an installed engine may print
EngineTokens ==
    {<<"3", ".", "0", "4", ".", "0", "1">>, <<"3", ".", "0", "5">>,
     <<"v", "4", ".", "0">>, <<"3", ".", "0", "5", ".", "0", "0", "d">>,
     <<"3", ".", "4">>}

IdleThread ==
    [pc |-> "idle", op |-> "none", output_type |-> "string", val |-> None, ret |-> None,
     nq |-> 0, runs |-> 0, scratch |-> 0, startedCached |-> FALSE, outcome |-> "none"]

\* values of class Output (bytes and dict are dispatched as string is), and
\* one that is none of them
OutputTypes == {"data.frame", "string", "object", "other"}

Ops == {"get_tesseract_version", "image_to_data"}

InitVer ==
    /\ CallsIdle
    /\ pin = <<>>
    /\ pout = <<>>
    /\ \E tok \in EngineTokens :
          ver = [cache |-> None, engine |-> tok, first |-> None,
                 thr |-> [t \in Threads |-> IdleThread]]

Thr(t) == ver.thr[t]

\* a thread calls get_tesseract_version, by itself or as image_to_data's first step
CallOp(t) ==
    /\ Thr(t).pc = "idle"
    /\ \E op \in Ops, ot \in OutputTypes :
          /\ op = "get_tesseract_version" => ot = "string"
          /\ ver' = [ver EXCEPT !.thr[t] = [IdleThread EXCEPT !.pc = "check", !.op = op,
                                               !.output_type = ot,
                                               !.startedCached = (ver.cache # None)]]
    /\ UNCHANGED <<call, files, lost, pin, pout>>

\* run_once: if wrapper._result is wrapper
WrapperCheck(t) ==
    /\ Thr(t).pc = "check"
    /\ ver' = [ver EXCEPT !.thr[t].pc = IF ver.cache = None THEN "query" ELSE "return"]
    /\ UNCHANGED <<call, files, lost, pin, pout>>

\* get_tesseract_version: subprocess.check_output([tesseract_cmd, '--version'])
\* and the parse of its output, or OSError turned into TesseractNotFoundError
VersionQuery(t) ==
    /\ Thr(t).pc = "query"
    /\ \/ ver' = [ver EXCEPT !.thr[t].pc = "store", !.thr[t].nq = Thr(t).nq + 1,
                             !.thr[t].val = <<VersionOf(ver.engine)>>,
                             !.first = IF ver.first = None THEN <<VersionOf(ver.engine)>>
                                       ELSE ver.first]
       \/ ver' = [ver EXCEPT !.thr[t].pc = "done", !.thr[t].nq = Thr(t).nq + 1,
                             !.thr[t].outcome = "TesseractNotFoundError"]
    /\ UNCHANGED <<call, files, lost, pin, pout>>

\* run_once: wrapper._result = func(*args, **kwargs)
WrapperStore(t) ==
    /\ Thr(t).pc = "store"
    /\ ver' = [ver EXCEPT !.thr[t].pc = "return",
                          !.cache = StoreResult(ver.cache, Thr(t).val[1])]
    /\ UNCHANGED <<call, files, lost, pin, pout>>

\* run_once: return wrapper._result
WrapperReturn(t) ==
    /\ Thr(t).pc = "return"
    /\ ver' = IF Thr(t).op = "get_tesseract_version"
              THEN [ver EXCEPT !.thr[t].pc = "done", !.thr[t].ret = ver.cache,
                               !.thr[t].outcome = "ok"]
              ELSE [ver EXCEPT !.thr[t].pc = "compare", !.thr[t].ret = ver.cache]
    /\ UNCHANGED <<call, files, lost, pin, pout>>

\* image_to_data: if get_tesseract_version() < '3.05': raise TSVNotSupported()
CompareVersion(t) ==
    /\ Thr(t).pc = "compare"
    /\ LET c == IF Thr(t).ret = None THEN "TypeError" ELSE BelowMinTsv(Thr(t).ret[1])
       IN  ver' = CASE c = "lt" -> [ver EXCEPT !.thr[t].pc = "done",
                                                !.thr[t].outcome = "TSVNotSupported"]
                    [] c = "TypeError" -> [ver EXCEPT !.thr[t].pc = "done",
                                                       !.thr[t].outcome = "TypeError"]
                    [] OTHER -> [ver EXCEPT !.thr[t].pc = "run"]
    /\ UNCHANGED <<call, files, lost, pin, pout>>

\* image_to_data: the output type picks run_and_get_output (a scratch file and
\* an engine run); no entry for the type is KeyError, data.frame without
\* pandas is PandasNotSupported
RunByOutputType(t) ==
    /\ Thr(t).pc = "run"
    /\ \/ /\ Thr(t).output_type # "other"
          /\ ver' = [ver EXCEPT !.thr[t].pc = "done", !.thr[t].outcome = "ok",
                                !.thr[t].scratch = 1, !.thr[t].runs = 1]
       \/ /\ Thr(t).output_type = "other"
          /\ ver' = [ver EXCEPT !.thr[t].pc = "done", !.thr[t].outcome = "KeyError"]
       \/ /\ Thr(t).output_type = "data.frame"
          /\ ver' = [ver EXCEPT !.thr[t].pc = "done",
                                !.thr[t].outcome = "PandasNotSupported"]
    /\ UNCHANGED <<call, files, lost, pin, pout>>

\* the caller goes on to its next call
NextOp(t) ==
    /\ Thr(t).pc = "done"
    /\ ver' = [ver EXCEPT !.thr[t] = IdleThread]
    /\ UNCHANGED <<call, files, lost, pin, pout>>

ThreadStep(t) ==
    \/ CallOp(t)
    \/ WrapperCheck(t)
    \/ VersionQuery(t)
    \/ WrapperStore(t)
    \/ WrapperReturn(t)
    \/ CompareVersion(t)
    \/ RunByOutputType(t)
    \/ NextOp(t)

NextVer == \E t \in Threads : ThreadStep(t)

SpecVer == InitVer /\ [][NextVer]_vars

\* a call of image_to_data that has ended and was given a version below 3.05
DataBelow(t) ==
    /\ Thr(t).pc = "done"
    /\ Thr(t).op = "image_to_data"
    /\ Thr(t).ret # None
    /\ LooseCmp(Thr(t).ret[1], <<IntCell(3), IntCell(5)>>) = "lt"

\* C6 as stated: image_to_data on a version below 3.05 fails with
\* TSVNotSupported and has spawned no process of any kind.
C6_NoProcessAtAll ==
    \A t \in Threads :
        DataBelow(t) =>
            /\ Thr(t).outcome = "TSVNotSupported"
            /\ Thr(t).nq = 0
            /\ Thr(t).runs = 0
            /\ Thr(t).scratch = 0

\* C6 amended: image_to_data on a version below 3.05 fails with
\* TSVNotSupported, whatever the output type, without a scratch file and
\* without an engine run; the one process it may spawn is the version query,
\* and only when no version was cached when the call began.
C6_NoEngineRun ==
    \A t \in Threads :
        DataBelow(t) =>
            /\ Thr(t).outcome = "TSVNotSupported"
            /\ Thr(t).runs = 0
            /\ Thr(t).scratch = 0
            /\ Thr(t).nq <= 1
            /\ Thr(t).startedCached => Thr(t).nq = 0

\* a call with an output type that is no Output value, on a cached 3.04.01
C6_Witness ==
    \E t \in Threads :
        /\ DataBelow(t)
        /\ Thr(t).output_type = "other"
        /\ Thr(t).startedCached
        /\ ver.engine = <<"3", ".", "0", "4", ".", "0", "1">>

====
